---- MODULE Spec2Model ----
(***************************************************************************)
(* A model of TileStache/Config.py: the path resolver enforcedLocalPath,   *)
(* the tile bounds test Bounds.excludes, the class loader loadClassPath    *)
(* and the configuration builder buildConfiguration with its cache and     *)
(* layer factories.                                                        *)
(*                                                                         *)
(* Strings that the code takes apart (paths and URLs) are sequences of     *)
(* lexical tokens: a maximal run of URL scheme characters (letters,        *)
(* digits, "+", "-", ".") is one token, written as a TLA+ string, and each *)
(* of the characters  : / ? # ;  is a token of its own.  Two word tokens   *)
(* are never adjacent, so equal strings have equal token sequences.        *)
(***************************************************************************)
EXTENDS Integers, Sequences, FiniteSets, TLC

VARIABLES
    \* enforcedLocalPath: the two arguments, the call's position and outcome
    relpath, dirpath, path_pc, path_result,
    \* Bounds: the bounds specification, the Bounds built from it, the tile
    \* handed to excludes() and what excludes() returned
    bounds_dict, bounds, tile, excluded, bounds_pc,
    \* loadClassPath: sys.modules, the number of module initialisations run,
    \* the number of expression evaluations run, the last call and its
    \* outcome, the first successful outcome per specifier, and the number
    \* of calls made
    sys_modules, init_runs, eval_runs, classpath, load_result, first_symbol,
    load_calls,
    \* buildConfiguration: the configuration dictionary and its directory, the position in the
    \* build, the Configuration under construction, the layer names still to
    \* be built, and what the caller got back
    config_dict, config_dirpath, build_pc, config, todo, returned

path_vars   == <<relpath, dirpath, path_pc, path_result>>
bounds_vars == <<bounds_dict, bounds, tile, excluded, bounds_pc>>
load_vars   == <<sys_modules, init_runs, eval_runs, classpath, load_result, first_symbol,
                 load_calls>>
build_vars  == <<config_dict, config_dirpath, build_pc, config, todo, returned>>
vars        == <<path_vars, bounds_vars, load_vars, build_vars>>

None == "None"

-----------------------------------------------------------------------------
(* Token strings                                                           *)

Delims == {":", "/", "?", "#", ";"}

IsWord(t) == t \notin Delims

\* words made of decimal digits only
NumericWords == {"80", "8080"}

Empty == << >>

Tail1(s, i) == SubSeq(s, i, Len(s))

\* str.find(tok, start): the first index >= start holding tok, 0 when none
\* (indices are 1-based, so Python's -1 is 0 here)
Find(s, tok, start) ==
    LET hits == {k \in start..Len(s) : s[k] = tok}
    IN  IF hits = {} THEN 0 ELSE CHOOSE k \in hits : \A j \in hits : k <= j

\* str.rfind(tok): the last index holding tok, 0 when none
RFind(s, tok) ==
    LET hits == {k \in 1..Len(s) : s[k] = tok}
    IN  IF hits = {} THEN 0 ELSE CHOOSE k \in hits : \A j \in hits : k >= j

StartsWith(s, tok) == Len(s) >= 1 /\ s[1] = tok

EndsWith(s, tok) == Len(s) >= 1 /\ s[Len(s)] = tok

StartsWith2(s, t1, t2) == Len(s) >= 2 /\ s[1] = t1 /\ s[2] = t2

\* str.split(sep): the segments between separators
RECURSIVE Split(_, _)
Split(s, sep) ==
    LET i == Find(s, sep, 1)
    IN  IF i = 0 THEN <<s>>
        ELSE <<SubSeq(s, 1, i - 1)>> \o Split(Tail1(s, i + 1), sep)

\* sep.join(segments)
RECURSIVE Join(_, _)
Join(segs, sep) ==
    IF Len(segs) = 0 THEN Empty
    ELSE IF Len(segs) = 1 THEN segs[1]
    ELSE segs[1] \o <<sep>> \o Join(Tail(segs), sep)

-----------------------------------------------------------------------------
(* urlparse (Python 2.7 standard library), as Config.py imports it         *)

uses_relative == {"ftp", "http", "gopher", "nntp", "imap", "wais", "file",
                  "https", "shttp", "mms", "prospero", "rtsp", "rtspu", "",
                  "sftp", "svn", "svn+ssh"}

uses_netloc == {"ftp", "http", "gopher", "nntp", "telnet", "imap", "wais",
                "file", "mms", "https", "shttp", "snews", "prospero", "rtsp",
                "rtspu", "rsync", "", "svn", "svn+ssh", "sftp", "nfs", "git",
                "git+ssh"}

uses_params == {"ftp", "hdl", "prospero", "http", "imap", "https", "shttp",
                "rtsp", "rtspu", "sip", "sips", "mms", "", "sftp", "tel"}

\* _splitnetloc(url, 2): the netloc runs from after "//" to the first of / ? #
splitnetloc(url) ==
    LET ends  == {k \in 3..Len(url) : url[k] \in {"/", "?", "#"}}
        delim == IF ends = {} THEN Len(url) + 1
                 ELSE CHOOSE k \in ends : \A j \in ends : k <= j
    IN  [netloc |-> SubSeq(url, 3, delim - 1), rest |-> Tail1(url, delim)]

\* str.lower() of a word: the words written with capital letters are those of
\* this table, every other word is in lower case already
LowerCase ==
    ("FILE" :> "file") @@ ("File" :> "file") @@ ("HTTP" :> "http") @@ ("Http" :> "http")
    @@ ("HTTPS" :> "https") @@ ("Https" :> "https") @@ ("FTP" :> "ftp") @@ ("Ftp" :> "ftp")

lower(word) == IF word \in DOMAIN LowerCase THEN LowerCase[word] ELSE word

\* urlsplit(url, scheme): scheme, netloc, path, query, fragment
urlsplit(url, default_scheme) ==
    LET \* "if '?' in url: url, query = url.split('?', 1)"
        SplitQuery(scheme, netloc, url3, fragment) ==
            LET q == Find(url3, "?", 1)
            IN  [scheme |-> scheme, netloc |-> netloc,
                 path |-> IF q > 0 THEN SubSeq(url3, 1, q - 1) ELSE url3,
                 query |-> IF q > 0 THEN Tail1(url3, q + 1) ELSE Empty,
                 fragment |-> fragment]
        \* "if '#' in url: url, fragment = url.split('#', 1)"
        SplitFragment(scheme, netloc, url2) ==
            LET h == Find(url2, "#", 1)
            IN  SplitQuery(scheme, netloc,
                           IF h > 0 THEN SubSeq(url2, 1, h - 1) ELSE url2,
                           IF h > 0 THEN Tail1(url2, h + 1) ELSE Empty)
        \* "if url[:2] == '//': netloc, url = _splitnetloc(url, 2)"
        SplitNetloc(scheme, nl) == SplitFragment(scheme, nl.netloc, nl.rest)
        SplitScheme(scheme, url1) ==
            SplitNetloc(scheme, IF StartsWith2(url1, "/", "/")
                                THEN splitnetloc(url1)
                                ELSE [netloc |-> Empty, rest |-> url1])
        i      == Find(url, ":", 1)
        head   == SubSeq(url, 1, i - 1)
        rest   == Tail1(url, i + 1)
        \* "if url[:i] == 'http'": the common case, taken without looking at
        \* what follows the colon
        isHttp == i > 1 /\ head = <<"http">>
        \* every character before the colon is a scheme character, and
        \* what follows is not a port number
        hasSch == /\ i > 1
                  /\ \A k \in 1..Len(head) : IsWord(head[k])
                  /\ \/ rest = Empty
                     \/ ~(Len(rest) = 1 /\ rest[1] \in NumericWords)
    IN  IF isHttp \/ hasSch
        THEN SplitScheme(lower(head[1]), rest)
        ELSE SplitScheme(default_scheme, url)

\* s[:-1]: the string without its last character, which is a token of its
\* own or the end of a word
ButLastChar(s) ==
    IF s = Empty THEN Empty
    ELSE IF s[Len(s)] \in Delims \/ Len(s[Len(s)]) = 1
    THEN SubSeq(s, 1, Len(s) - 1)
    ELSE SubSeq(s, 1, Len(s) - 1) \o <<SubSeq(s[Len(s)], 1, Len(s[Len(s)]) - 1)>>

\* _splitparams(url): the parameters of the last path segment
splitparams(url) ==
    LET Cut(i) == [path |-> SubSeq(url, 1, i - 1), params |-> Tail1(url, i + 1)]
        \* "if i < 0: return url, ''"
        AfterSlash(i) == IF i = 0 THEN [path |-> url, params |-> Empty] ELSE Cut(i)
        \* without a slash i = -1 is not tested: url[:-1], url[0:]
        NoSlash(i) == IF i = 0 THEN [path |-> ButLastChar(url), params |-> url] ELSE Cut(i)
    IN  IF Find(url, "/", 1) > 0
        THEN AfterSlash(Find(url, ";", RFind(url, "/")))
        ELSE NoSlash(Find(url, ";", 1))

\* urlparse(url, scheme): urlsplit plus the params of the path
urlparse2(url, default_scheme) ==
    LET WithParams(t, sp) ==
            [scheme |-> t.scheme, netloc |-> t.netloc, path |-> sp.path,
             params |-> sp.params, query |-> t.query, fragment |-> t.fragment]
        Parsed(t) ==
            WithParams(t, IF t.scheme \in uses_params /\ Find(t.path, ";", 1) > 0
                          THEN splitparams(t.path)
                          ELSE [path |-> t.path, params |-> Empty])
    IN  Parsed(urlsplit(url, default_scheme))

urlparse(url) == urlparse2(url, "")

\* urlunsplit((scheme, netloc, url, query, fragment))
urlunsplit(scheme, netloc, url, query, fragment) ==
    LET AddFragment(u) == IF fragment # Empty THEN u \o <<"#">> \o fragment ELSE u
        AddQuery(u)    == AddFragment(IF query # Empty THEN u \o <<"?">> \o query ELSE u)
        AddScheme(u)   == AddQuery(IF scheme # "" THEN <<scheme, ":">> \o u ELSE u)
        Rooted(u)      == IF u # Empty /\ ~StartsWith(u, "/") THEN <<"/">> \o u ELSE u
    IN  IF \/ netloc # Empty
           \/ (scheme # "" /\ scheme \in uses_netloc /\ ~StartsWith2(url, "/", "/"))
        THEN AddScheme(<<"/", "/">> \o netloc \o Rooted(url))
        ELSE AddScheme(url)

\* urlunparse((scheme, netloc, url, params, query, fragment))
urlunparse(scheme, netloc, url, params, query, fragment) ==
    urlunsplit(scheme, netloc,
               IF params # Empty THEN url \o <<";">> \o params ELSE url,
               query, fragment)

\* urljoin: "while '.' in segments: segments.remove('.')"
RemoveDots(segs) == SelectSeq(segs, LAMBDA s : s # <<".">>)

\* urljoin: delete the first "x/.." pair with x not in ('', '..'), looking at
\* positions 1 <= i < len(segments) - 1 (0-based), until none is left
RECURSIVE CollapseDotDot(_)
CollapseDotDot(segs) ==
    LET n    == Len(segs)
        \* 1-based position p of a "..", 0-based i = p - 1 with 1 <= i < n - 1
        hits == {p \in 2..(n - 1) : /\ segs[p] = <<"..">>
                                    /\ segs[p - 1] \notin {Empty, <<"..">>}}
        Delete(p) == CollapseDotDot(SubSeq(segs, 1, p - 2) \o SubSeq(segs, p + 1, n))
    IN  IF hits = {} THEN segs
        ELSE Delete(CHOOSE k \in hits : \A j \in hits : k <= j)

\* urljoin(base, url)
urljoin(base, url) ==
    LET Front(segs) == SubSeq(segs, 1, Len(segs) - 1)
        \* "if segments[-1] == '.': segments[-1] = ''"
        BlankLastDot(segs) ==
            IF segs[Len(segs)] = <<".">> THEN [segs EXCEPT ![Len(segs)] = Empty] ELSE segs
        \* "if segments == ['', '..']: ... elif ... segments[-1] == '..': ..."
        DropLastDotDot(segs) ==
            IF segs = <<Empty, <<"..">>>> THEN <<Empty, Empty>>
            ELSE IF Len(segs) >= 2 /\ segs[Len(segs)] = <<"..">>
            THEN SubSeq(segs, 1, Len(segs) - 2) \o <<Empty>>
            ELSE segs
        Segments(bpath, path) ==
            DropLastDotDot(CollapseDotDot(RemoveDots(BlankLastDot(
                Front(Split(bpath, "/")) \o Split(path, "/")))))
        Joined(b, u) ==
            LET netloc == IF u.scheme \in uses_netloc THEN b.netloc ELSE u.netloc
            IN  IF u.scheme # b.scheme \/ u.scheme \notin uses_relative THEN url
                ELSE IF u.scheme \in uses_netloc /\ u.netloc # Empty
                THEN urlunparse(u.scheme, u.netloc, u.path, u.params, u.query, u.fragment)
                ELSE IF StartsWith(u.path, "/")
                THEN urlunparse(u.scheme, netloc, u.path, u.params, u.query, u.fragment)
                ELSE IF u.path = Empty /\ u.params = Empty
                THEN urlunparse(u.scheme, netloc, b.path, b.params,
                                IF u.query = Empty THEN b.query ELSE u.query, u.fragment)
                ELSE urlunparse(u.scheme, netloc, Join(Segments(b.path, u.path), "/"),
                                u.params, u.query, u.fragment)
        WithBase(b) == Joined(b, urlparse2(url, b.scheme))
    IN  IF base = Empty THEN url
        ELSE IF url = Empty THEN base
        ELSE WithBase(urlparse2(base, ""))

\* os.path.join(a, b) of posixpath
pathjoin(a, b) ==
    IF StartsWith(b, "/") THEN b
    ELSE IF a = Empty \/ EndsWith(a, "/") THEN a \o b
    ELSE a \o <<"/">> \o b

-----------------------------------------------------------------------------
(* Outcomes of a call: a value, or an exception of some class              *)

Returned(v) == [ok |-> TRUE, value |-> v, error |-> None, why |-> None]

Raised(class, why) == [ok |-> FALSE, value |-> None, error |-> class, why |-> why]

KnownUnknown(why) == Raised("KnownUnknown", why)

-----------------------------------------------------------------------------
(* enforcedLocalPath                                                       *)

enforcedLocalPath_NoRemoteCheck(rel, dir) ==
    LET Resolved(parsed_dir, parsed_rel) ==
            IF parsed_rel.scheme \notin {"file", ""}
            THEN KnownUnknown("local-path-required")
            ELSE IF parsed_rel.scheme = "file" THEN Returned(parsed_rel.path)
            ELSE IF parsed_dir.scheme = "file"
            THEN Returned(urljoin(parsed_dir.path, parsed_rel.path))
            ELSE Returned(pathjoin(dir, rel))
    IN  Resolved(urlparse(dir), urlparse(rel))

enforcedLocalPath(rel, dir) ==
    LET Resolved(parsed_dir, parsed_rel) ==
            IF parsed_rel.scheme \notin {"file", ""}
            THEN KnownUnknown("local-path-required")
            ELSE IF parsed_dir.scheme \notin {"file", ""} /\ parsed_rel.scheme # "file"
            THEN KnownUnknown("ambiguous-remote-base")
            ELSE IF parsed_rel.scheme = "file" THEN Returned(parsed_rel.path)
            ELSE IF parsed_dir.scheme = "file"
            THEN Returned(urljoin(parsed_dir.path, parsed_rel.path))
            ELSE Returned(pathjoin(dir, rel))
    IN  Resolved(urlparse(dir), urlparse(rel))

-----------------------------------------------------------------------------
(* Inputs of enforcedLocalPath                                             *)

MaxRelSegs == 2
MaxDirSegs == 2

SegWords == {"a", ".."}

SegSeqs(n) == UNION {[1..k -> SegWords] : k \in 0..n}

\* the path made of the given segment words
Body(segs) == Join([i \in 1..Len(segs) |-> <<segs[i]>>], "/")

\* two word tokens are never adjacent
Canonical(s) == \A k \in 1..(Len(s) - 1) : ~(IsWord(s[k]) /\ IsWord(s[k + 1]))

\* among them a scheme in capitals, and a colon followed by a number after
\* "http" and after another word
RelPrefixes == {Empty, <<"file", ":">>, <<"file", ":", "/", "/">>,
                <<"http", ":", "/", "/", "h">>, <<"FILE", ":", "/", "/">>,
                <<"http", ":", "80">>, <<"svn", ":", "80">>}

DirPrefixes == {Empty, <<"file", ":", "/", "/">>, <<"http", ":", "/", "/", "h">>,
                <<"File", ":", "/", "/">>, <<"svn", ":", "80">>}

RelSuffixes == {Empty, <<"#", "f">>, <<"?", "q">>}

RelPaths ==
    {s \in {p \o l \o Body(b) \o x : p \in RelPrefixes, l \in {Empty, <<"/">>},
                                    b \in SegSeqs(MaxRelSegs), x \in RelSuffixes} :
        Canonical(s)}

DirPaths ==
    {s \in {p \o l \o Body(b) \o x : p \in DirPrefixes, l \in {Empty, <<"/">>},
                                    b \in SegSeqs(MaxDirSegs), x \in {Empty, <<"/">>}} :
        Canonical(s)}

\* the pairs <<relpath, dirpath>> of the documented examples
ExamplePairs ==
    { <<<<"/", "abs", "/", "path">>, <<"/", "cfg", "/", "dir">>>>,
      <<<<"relative", "/", "p">>, <<"http", ":", "/", "/", "example.com", "/", "cfg">>>>,
      <<<<"file", ":", "/", "/", "/", "abs", "/", "p">>,
        <<"http", ":", "/", "/", "example.com", "/", "cfg">>>>,
      <<<<"rel", "/", "p">>, <<"/", "cfg", "/", "dir">>>> }

NoResult == [ok |-> FALSE, value |-> None, error |-> None, why |-> None]

PathInit ==
    /\ \E pair \in (RelPaths \X DirPaths) \cup ExamplePairs :
          relpath = pair[1] /\ dirpath = pair[2]
    /\ path_pc = "call"
    /\ path_result = NoResult

PathIdle ==
    /\ relpath = Empty /\ dirpath = Empty
    /\ path_pc = "idle" /\ path_result = NoResult

\* one call enforcedLocalPath(relpath, dirpath, context)
Resolve ==
    /\ path_pc = "call"
    /\ path_result' = enforcedLocalPath(relpath, dirpath)
    /\ path_pc' = "done"
    /\ UNCHANGED <<relpath, dirpath>>
    /\ UNCHANGED <<bounds_vars, load_vars, build_vars>>

-----------------------------------------------------------------------------
(* C1: enforcedLocalPath follows the five rules, in order                  *)

SchemeClass(s) ==
    LET sc == urlparse(s).scheme
    IN  IF sc = "" THEN "empty" ELSE IF sc = "file" THEN "file" ELSE "other"

IsPrefixOf(p, s) == Len(p) <= Len(s) /\ SubSeq(s, 1, Len(p)) = p

IsSuffixOf(x, s) == Len(x) <= Len(s) /\ SubSeq(s, Len(s) - Len(x) + 1, Len(s)) = x

\* rules (1), (2), (3) and (5) of the claim, and rule (4) with the second
\* argument of the URL-join left open
RulesHold(rel, dir, res, joined) ==
    LET rc == SchemeClass(rel)
        dc == SchemeClass(dir)
    IN  IF rc = "other"
        THEN ~res.ok /\ res.error = "KnownUnknown" /\ res.why = "local-path-required"
        ELSE IF dc = "other" /\ rc # "file"
        THEN ~res.ok /\ res.error = "KnownUnknown" /\ res.why = "ambiguous-remote-base"
        ELSE IF rc = "file"
        THEN res.ok /\ res.value = urlparse(rel).path
        ELSE IF dc = "file"
        THEN res.ok /\ res.value = urljoin(urlparse(dir).path, joined)
        ELSE /\ res.ok
             /\ res.value = pathjoin(dir, rel)
             /\ StartsWith(rel, "/") => res.value = rel
             /\ ~StartsWith(rel, "/") =>
                   IsPrefixOf(dir, res.value) /\ IsSuffixOf(rel, res.value)

ExamplesHold ==
    /\ (relpath = <<"/", "abs", "/", "path">> /\ dirpath = <<"/", "cfg", "/", "dir">>)
          => path_result = Returned(<<"/", "abs", "/", "path">>)
    /\ (relpath = <<"relative", "/", "p">>) => ~path_result.ok
    /\ (relpath = <<"file", ":", "/", "/", "/", "abs", "/", "p">>)
          => path_result = Returned(<<"/", "abs", "/", "p">>)
    /\ (relpath = <<"rel", "/", "p">>)
          => path_result = Returned(<<"/", "cfg", "/", "dir", "/", "rel", "/", "p">>)

\* C1 as stated: under rule (4) the result is the URL-join of dirpath's path
\* component with relpath itself
C1_Original ==
    path_pc = "done" => RulesHold(relpath, dirpath, path_result, relpath) /\ ExamplesHold

\* C1 as amended: enforcedLocalPath follows rules (1), (2), (3), (5) as stated,
\* and under rule (4) returns the URL-join of dirpath's path component with
\* relpath's path component (query and fragment of relpath are dropped)
C1_Rules ==
    path_pc = "done" =>
        RulesHold(relpath, dirpath, path_result, urlparse(relpath).path) /\ ExamplesHold

\* a plain relative path with a fragment, resolved against a file:// base
C1_Witness ==
    /\ path_pc = "done"
    /\ SchemeClass(relpath) = "empty" /\ SchemeClass(dirpath) = "file"
    /\ urlparse(relpath).fragment # Empty
    /\ path_result.ok

-----------------------------------------------------------------------------

(* Coordinates (ModestMaps.Core.Coordinate)                                *)
(*                                                                         *)
(* Rows and columns are floating point numbers that the code only ever     *)
(* adds 1 to and multiplies by powers of two, so they are modelled exactly *)
(* as dyadic rationals n / 2^e.                                            *)

Dyadic(n, e) == [n |-> n, e |-> e]

Whole(n) == Dyadic(n, 0)

\* the same number with the smallest exponent
RECURSIVE Norm(_)
Norm(d) == IF d.e > 0 /\ d.n % 2 = 0 THEN Norm(Dyadic(d.n \div 2, d.e - 1)) ELSE d

\* d * math.pow(2, k), k of either sign
TimesPow2(d, k) == IF k >= 0 THEN Norm(Dyadic(d.n * 2^k, d.e)) ELSE Norm(Dyadic(d.n, d.e - k))

PlusOne(d) == Dyadic(d.n + 2^d.e, d.e)

Less(a, b) == a.n * 2^b.e < b.n * 2^a.e

Coordinate(row, column, zoom) == [row |-> row, column |-> column, zoom |-> zoom]

\* Coordinate.zoomTo(destination)
zoomTo(c, destination) ==
    Coordinate(TimesPow2(c.row, destination - c.zoom),
               TimesPow2(c.column, destination - c.zoom), destination)

\* Coordinate.right()
right(c) == Coordinate(c.row, PlusOne(c.column), c.zoom)

\* Coordinate.down()
down(c) == Coordinate(PlusOne(c.row), c.column, c.zoom)

-----------------------------------------------------------------------------
(* Bounds                                                                  *)

\* Bounds.__init__
Bounds(upper_left_high, lower_right_low) ==
    [upper_left_high |-> upper_left_high, lower_right_low |-> lower_right_low]

\* excludes() with the tile itself, not its bottom-right neighbour, checked
\* against the upper-left bound
excludes_NoNeighbour(self, t) ==
    LET tl == zoomTo(t, self.lower_right_low.zoom)
        br == zoomTo(t, self.upper_left_high.zoom)
    IN  IF t.zoom > self.upper_left_high.zoom THEN TRUE
        ELSE IF t.zoom < self.lower_right_low.zoom THEN TRUE
        ELSE IF Less(self.lower_right_low.column, tl.column) THEN TRUE
        ELSE IF Less(self.lower_right_low.row, tl.row) THEN TRUE
        ELSE IF Less(br.column, self.upper_left_high.column) THEN TRUE
        ELSE IF Less(br.row, self.upper_left_high.row) THEN TRUE
        ELSE FALSE

\* excludes() with the bottom-right neighbour compared to the upper-left bound
\* without being reprojected to its zoom
excludes_NoReproject(self, t) ==
    LET br == down(right(t))
    IN  IF t.zoom > self.upper_left_high.zoom THEN TRUE
        ELSE IF t.zoom < self.lower_right_low.zoom THEN TRUE
        ELSE IF Less(self.lower_right_low.column, zoomTo(t, self.lower_right_low.zoom).column)
        THEN TRUE
        ELSE IF Less(self.lower_right_low.row, zoomTo(t, self.lower_right_low.zoom).row)
        THEN TRUE
        ELSE IF Less(br.column, self.upper_left_high.column) THEN TRUE
        ELSE IF Less(br.row, self.upper_left_high.row) THEN TRUE
        ELSE FALSE

\* Bounds.excludes(tile)
excludes(self, t) ==
    LET _tile  == zoomTo(t, self.lower_right_low.zoom)
        __tile == zoomTo(down(right(t)), self.upper_left_high.zoom)
    IN  IF t.zoom > self.upper_left_high.zoom THEN TRUE         \* too zoomed-in
        ELSE IF t.zoom < self.lower_right_low.zoom THEN TRUE    \* too zoomed-out
        ELSE IF Less(self.lower_right_low.column, _tile.column) THEN TRUE
        ELSE IF Less(self.lower_right_low.row, _tile.row) THEN TRUE
        ELSE IF Less(__tile.column, self.upper_left_high.column) THEN TRUE
        ELSE IF Less(__tile.row, self.upper_left_high.row) THEN TRUE
        ELSE FALSE

\* a value that may be None: no element, or the one value
PyNone == << >>

Some(v) == <<v>>

\* dict.get(key, None); a dictionary is a function on the keys it holds
Get(dict, key) == IF key \in DOMAIN dict THEN Some(dict[key]) ELSE PyNone

\* Location(lat, lon)
Location(lat, lon) == [lat |-> lat, lon |-> lon]

\* the row of a latitude and the column of a longitude at zoom 0, on the
\* positions where the spherical mercator projection gives dyadic numbers
\* (85 stands for the projection's limit of 85.0511 degrees)
LatRow(lat) == CASE lat = 85 -> Whole(0) [] lat = 0 -> Dyadic(1, 1) [] lat = -85 -> Whole(1)

LonColumn(lon) ==
    CASE lon = -180 -> Whole(0) [] lon = 0 -> Dyadic(1, 1) [] lon = 90 -> Dyadic(3, 2)
      [] lon = 180 -> Whole(1)

\* projection.locationCoordinate(location): arithmetic on None is a TypeError
locationCoordinate(location) ==
    IF location.lat = PyNone \/ location.lon = PyNone
    THEN Raised("TypeError", "unsupported operand")
    ELSE Returned(Coordinate(LatRow(location.lat[1]), LonColumn(location.lon[1]), 0))

\* __parseLayerBounds(bounds_dict, projection)
_parseLayerBounds(bounds_dict_) ==
    LET north == Get(bounds_dict_, "north")
        west  == Get(bounds_dict_, "west")
        south == Get(bounds_dict_, "south")
        east  == Get(bounds_dict_, "east")
        high  == Get(bounds_dict_, "high")
        low   == Get(bounds_dict_, "low")
        ul    == locationCoordinate(Location(north, west))
        lr    == locationCoordinate(Location(south, east))
    IN  \* a TypeError, from the projection or from zoomTo(None), is caught
        IF ~ul.ok \/ high = PyNone \/ ~lr.ok \/ low = PyNone
        THEN KnownUnknown("incomplete-bounds-spec")
        ELSE Returned(Bounds(zoomTo(ul.value, high[1]), zoomTo(lr.value, low[1])))

-----------------------------------------------------------------------------
(* Inputs of the bounds operations                                         *)

MaxZoom == 2
MaxTile == 2
MaxCorner == 2

Zooms == 0..MaxZoom

BoundsKeys == {"north", "south", "east", "west", "high", "low"}

\* the function f on the keys in K only
Restrict(f, K) == [k \in K |-> f[k]]

\* "bounds" dictionaries holding any of the six keys
BoundsDicts ==
    {Restrict(full, K) :
        full \in [north : {85, 0}, south : {0, -85}, west : {-180, 0}, east : {0, 90},
                  high : Zooms, low : Zooms],
        K \in SUBSET BoundsKeys}

\* no "bounds" dictionary: the Bounds is constructed directly
NoDict == [direct |-> TRUE]

\* the bounds and the tiles of the documented example
ExampleHigh == Coordinate(Whole(5), Whole(5), 10)
ExampleLow  == Coordinate(Whole(1), Whole(1), 8)

Corners ==
    {Coordinate(Whole(r), Whole(c), z) : r \in 0..MaxCorner, c \in 0..MaxCorner, z \in Zooms}
    \cup {ExampleHigh, ExampleLow}

Tiles ==
    {Coordinate(Whole(r), Whole(c), z) :
        r \in 0..MaxTile, c \in 0..MaxTile, z \in Zooms \cup 8..11}

NoTile == Coordinate(Whole(0), Whole(0), -1)

BoundsInit ==
    /\ bounds_dict \in BoundsDicts \cup {NoDict}
    /\ bounds = NoResult
    /\ tile = NoTile
    /\ excluded = FALSE
    /\ bounds_pc = "start"

BoundsIdle ==
    /\ bounds_dict = NoDict /\ bounds = NoResult /\ tile = NoTile
    /\ excluded = FALSE /\ bounds_pc = "idle"

\* the layer factory builds the Bounds of a "bounds" dictionary
ParseLayerBounds ==
    /\ bounds_pc = "start"
    /\ bounds_dict # NoDict
    /\ bounds' = _parseLayerBounds(bounds_dict)
    /\ bounds_pc' = IF bounds'.ok THEN "built" ELSE "failed"
    /\ UNCHANGED <<bounds_dict, tile, excluded>>
    /\ UNCHANGED <<path_vars, load_vars, build_vars>>

\* a caller constructs Bounds(upper_left_high, lower_right_low) itself
NewBounds ==
    /\ bounds_pc = "start"
    /\ bounds_dict = NoDict
    /\ \E ul \in Corners, lr \in Corners : bounds' = Returned(Bounds(ul, lr))
    /\ bounds_pc' = "built"
    /\ UNCHANGED <<bounds_dict, tile, excluded>>
    /\ UNCHANGED <<path_vars, load_vars, build_vars>>

\* one call bounds.excludes(tile)
Excludes ==
    /\ bounds_pc = "built"
    /\ \E t \in Tiles :
          /\ tile' = t
          /\ excluded' = excludes(bounds.value, t)
    /\ bounds_pc' = "checked"
    /\ UNCHANGED <<bounds_dict, bounds>>
    /\ UNCHANGED <<path_vars, load_vars, build_vars>>

-----------------------------------------------------------------------------
(* C2: what excludes() returns                                             *)

\* the four conditions of the claim
ClaimedExcluded(b, t) ==
    LET high == b.upper_left_high
        low  == b.lower_right_low
        atLow  == zoomTo(t, low.zoom)
        atHigh == zoomTo(Coordinate(PlusOne(t.row), PlusOne(t.column), t.zoom), high.zoom)
    IN  \/ t.zoom > high.zoom
        \/ t.zoom < low.zoom
        \/ Less(low.column, atLow.column) \/ Less(low.row, atLow.row)
        \/ Less(atHigh.column, high.column) \/ Less(atHigh.row, high.row)

ExampleBounds == Bounds(ExampleHigh, ExampleLow)

\* C2: excludes(tile) is true exactly when the tile is too zoomed-in, too
\* zoomed-out, past the lower-right corner at low.zoom, or has its bottom-right
\* neighbour before the upper-left corner at high.zoom; and the three example
\* tiles come out as documented
C2_Excludes ==
    bounds_pc = "checked" =>
        /\ excluded = ClaimedExcluded(bounds.value, tile)
        /\ bounds.value = ExampleBounds =>
              /\ tile = Coordinate(Whole(2), Whole(2), 9) => ~excluded
              /\ tile.zoom = 11 => excluded
              /\ tile = Coordinate(Whole(0), Whole(0), 8) => excluded

\* a tile inside its zoom range that is excluded only by the upper-left test
C2_Witness ==
    /\ bounds_pc = "checked"
    /\ excluded
    /\ tile.zoom <= bounds.value.upper_left_high.zoom
    /\ tile.zoom > bounds.value.lower_right_low.zoom
    /\ ~Less(bounds.value.lower_right_low.column,
             zoomTo(tile, bounds.value.lower_right_low.zoom).column)
    /\ ~Less(bounds.value.lower_right_low.row,
             zoomTo(tile, bounds.value.lower_right_low.zoom).row)

-----------------------------------------------------------------------------
(* C7: the zoom order of the corners                                       *)

\* C7 as stated: every Bounds built from a "bounds" dictionary has its
\* upper-left corner at a zoom not lower than its lower-right corner
C7_ZoomOrder ==
    (bounds_dict # NoDict /\ bounds.ok) =>
        bounds.value.upper_left_high.zoom >= bounds.value.lower_right_low.zoom

-----------------------------------------------------------------------------
(* C10: excludes() along the tile pyramid                                  *)

\* the tile one zoom level up that contains t
Parent(t) ==
    Coordinate(Whole(t.row.n \div 2), Whole(t.column.n \div 2), t.zoom - 1)

\* the four tiles one zoom level down that t contains
Children(t) ==
    {Coordinate(Whole(2 * t.row.n + dr), Whole(2 * t.column.n + dc), t.zoom + 1) :
        dr \in {0, 1}, dc \in {0, 1}}

\* C10: the parent of an included tile above low.zoom is included, and the
\* children of an excluded tile at or above low.zoom are excluded
C10_Pyramid ==
    bounds_pc = "checked" =>
        /\ (~excluded /\ tile.zoom > bounds.value.lower_right_low.zoom)
              => ~excludes(bounds.value, Parent(tile))
        /\ (excluded /\ tile.zoom >= bounds.value.lower_right_low.zoom)
              => \A c \in Children(tile) : excludes(bounds.value, c)

\* an included tile above low.zoom whose column and row are odd, so that
\* halving rounds down
C10_Witness ==
    /\ bounds_pc = "checked"
    /\ ~excluded
    /\ tile.zoom > bounds.value.lower_right_low.zoom
    /\ tile.column.n % 2 = 1 /\ tile.row.n % 2 = 1
    /\ bounds.value.upper_left_high.column.n > 0

-----------------------------------------------------------------------------

(* The Python environment of loadClassPath                                 *)
(*                                                                         *)
(* A class path is a sequence of tokens: identifiers and the characters    *)
(* . : ( ) each as a token of its own.                                     *)

GoodMod   == <<"pkg", ".", "mod">>
BrokenMod == <<"broken">>
CrashMod  == <<"crash">>
NoMod     == <<"nomod">>

Widget == [kind |-> "class", name |-> "Widget", serial |-> 0]

MakeFunction == [kind |-> "function", name |-> "make", serial |-> 0]

\* the class that the n-th evaluation of the call make() creates
Fresh(n) == [kind |-> "class", name |-> "made", serial |-> n]

\* the modules that can be found on sys.path: what running the module's code
\* ends with, and the names it defines. pkg.mod defines the class Widget, the
\* class factory make and Nothing = None; broken fails on an import of its own;
\* crash raises another exception; nomod is not found
ModuleTable ==
    (GoodMod :> [init |-> "ok",
                 names |-> [Widget |-> Some(Widget), Nothing |-> PyNone,
                            make |-> Some(MakeFunction)]])
    @@ (BrokenMod :> [init |-> "ImportError", names |-> [none |-> PyNone]])
    @@ (CrashMod :> [init |-> "NameError", names |-> [none |-> PyNone]])

Env(mods, inits, evals) == [sys_modules |-> mods, init_runs |-> inits, eval_runs |-> evals]

Outcome(result, env) == [result |-> result, env |-> env]

\* __import__(modname): a module in sys.modules is not run again; otherwise
\* its code runs, and it enters sys.modules only when that ends well
import_(modname, env) ==
    IF modname = Empty THEN Outcome(Raised("ValueError", "Empty module name"), env)
    ELSE IF modname \in env.sys_modules THEN Outcome(Returned(modname), env)
    ELSE IF modname \notin DOMAIN ModuleTable
    THEN Outcome(Raised("ImportError", "No module named"), env)
    ELSE LET ran == Env(env.sys_modules, env.init_runs + 1, env.eval_runs)
             m   == ModuleTable[modname]
         IN  IF m.init = "ok"
             THEN Outcome(Returned(modname),
                          Env(env.sys_modules \cup {modname}, ran.init_runs, ran.eval_runs))
             ELSE Outcome(Raised(m.init, "module code failed"), ran)

\* eval(objname, module.__dict__) for a name and for a call of a name
eval_(objname, modname, env) ==
    LET names == ModuleTable[modname].names
    IN  IF Len(objname) = 1 /\ objname[1] \notin {".", ":", "(", ")"}
        THEN IF objname[1] \in DOMAIN names
             THEN Outcome(Returned(names[objname[1]]), env)
             ELSE Outcome(Raised("NameError", "name is not defined"), env)
        ELSE IF Len(objname) = 3 /\ objname[2] = "(" /\ objname[3] = ")"
                /\ objname[1] \notin {".", ":", "(", ")"}
        THEN IF objname[1] \notin DOMAIN names
             THEN Outcome(Raised("NameError", "name is not defined"), env)
             ELSE IF names[objname[1]] = PyNone
             THEN Outcome(Raised("TypeError", "object is not callable"), env)
             ELSE Outcome(Returned(Some(Fresh(env.eval_runs + 1))),
                          Env(env.sys_modules, env.init_runs, env.eval_runs + 1))
        ELSE Outcome(Raised("SyntaxError", "invalid syntax"), env)

\* getattr(module, name)
getattr_(modname, name) ==
    LET names == ModuleTable[modname].names
    IN  IF Len(name) = 1 /\ name[1] \in DOMAIN names
        THEN Returned(names[name[1]])
        ELSE Raised("AttributeError", "module has no attribute")

-----------------------------------------------------------------------------
(* loadClassPath                                                           *)

\* the "foo:blah" branch, given what import and eval do
LoadColon(classpath_, imported, evaluated) ==
    IF ~imported.result.ok
    THEN Outcome(KnownUnknown("Tried to import"), imported.env)
    ELSE IF ~evaluated.result.ok
    THEN Outcome(KnownUnknown("Tried to import"), evaluated.env)
    ELSE IF evaluated.result.value = PyNone
    THEN Outcome(KnownUnknown("Tried to import"), evaluated.env)   \* came up None
    ELSE Outcome(Returned(evaluated.result.value), evaluated.env)

\* the "foo.blah" branch, given what import does
LoadLegacy(classpath_, imported) ==
    LET parts == Split(classpath_, ".")
        attr  == getattr_(imported.result.value, parts[Len(parts)])
    IN  IF ~imported.result.ok
        THEN IF imported.result.error = "ImportError"
             THEN Outcome(KnownUnknown("Tried to import"), imported.env)
             ELSE Outcome(imported.result, imported.env)
        ELSE IF ~attr.ok
        THEN Outcome(KnownUnknown("Tried to import"), imported.env)
        ELSE Outcome(Returned(attr.value), imported.env)

\* loadClassPath(classpath)
loadClassPath(classpath_, env) ==
    IF Find(classpath_, ":", 1) > 0
    THEN LET i       == Find(classpath_, ":", 1)
             modname == SubSeq(classpath_, 1, i - 1)
             objname == Tail1(classpath_, i + 1)
             Evaluated(imported) ==
                 LoadColon(classpath_, imported, eval_(objname, modname, imported.env))
         IN  Evaluated(import_(modname, env))
    ELSE LET parts == Split(classpath_, ".")
         IN  LoadLegacy(classpath_,
                        import_(Join(SubSeq(parts, 1, Len(parts) - 1), "."), env))

-----------------------------------------------------------------------------
(* Calls of loadClassPath                                                  *)

MaxLoads == 3

ModNames == {GoodMod, BrokenMod, CrashMod, NoMod}

Classpaths ==
    {m \o <<":">> \o x : m \in ModNames,
                         x \in {<<"Widget">>, <<"Nothing">>, <<"Missing">>,
                                <<"make", "(", ")">>}}
    \cup {m \o <<".">> \o x : m \in ModNames,
                              x \in {<<"Widget">>, <<"Nothing">>, <<"Missing">>}}
    \cup {<<"Widget">>}

NoClasspath == Empty

LoadInit ==
    /\ sys_modules = {}
    /\ init_runs = 0
    /\ eval_runs = 0
    /\ classpath = NoClasspath
    /\ load_result = NoResult
    /\ first_symbol = [c \in Classpaths |-> PyNone]
    /\ load_calls = 0

\* one call loadClassPath(cp)
Load ==
    /\ load_calls < MaxLoads
    /\ \E cp \in Classpaths :
          \E out \in {loadClassPath(cp, Env(sys_modules, init_runs, eval_runs))} :
              /\ classpath' = cp
              /\ load_result' = out.result
              /\ sys_modules' = out.env.sys_modules
              /\ init_runs' = out.env.init_runs
              /\ eval_runs' = out.env.eval_runs
              /\ first_symbol' =
                    IF out.result.ok /\ first_symbol[cp] = PyNone
                    THEN [first_symbol EXCEPT ![cp] = Some(out.result.value)]
                    ELSE first_symbol
    /\ load_calls' = load_calls + 1
    /\ UNCHANGED <<path_vars, bounds_vars, build_vars>>

-----------------------------------------------------------------------------
(* C5: failures of loadClassPath                                           *)

IsColonForm(cp) == Find(cp, ":", 1) > 0

\* the module named by a class path
ModuleOf(cp) ==
    IF IsColonForm(cp) THEN SubSeq(cp, 1, Find(cp, ":", 1) - 1)
    ELSE LET parts == Split(cp, ".") IN Join(SubSeq(parts, 1, Len(parts) - 1), ".")

\* the name or expression looked up in the module
ObjectOf(cp) ==
    IF IsColonForm(cp) THEN Tail1(cp, Find(cp, ":", 1) + 1)
    ELSE LET parts == Split(cp, ".") IN parts[Len(parts)]

CannotImport(cp) ==
    \/ ModuleOf(cp) \notin DOMAIN ModuleTable
    \/ ModuleTable[ModuleOf(cp)].init # "ok"

NameAbsent(cp) == ObjectOf(cp)[1] \notin DOMAIN ModuleTable[ModuleOf(cp)].names

NameIsNone(cp) ==
    /\ Len(ObjectOf(cp)) = 1
    /\ ObjectOf(cp)[1] \in DOMAIN ModuleTable[ModuleOf(cp)].names
    /\ ModuleTable[ModuleOf(cp)].names[ObjectOf(cp)[1]] = PyNone

\* C5 as stated: in both forms a module that cannot be imported, a missing
\* name and a None value each end in a KnownUnknown, and no call returns None
C5_LoadErrors ==
    load_calls > 0 =>
        /\ (CannotImport(classpath) \/ NameAbsent(classpath) \/ NameIsNone(classpath))
              => (~load_result.ok /\ load_result.error = "KnownUnknown")
        /\ load_result.ok => load_result.value # PyNone

-----------------------------------------------------------------------------
(* C6: resolving a class path again                                        *)

\* a step that resolves a class path already resolved successfully before
ResolvedAgain == load_calls' = load_calls + 1 /\ first_symbol[classpath'] # PyNone

\* C6 as stated: resolving a class path again returns the first symbol, runs
\* no module code and evaluates nothing
C6_Memoized ==
    [][ResolvedAgain =>
          /\ load_result'.ok /\ load_result'.value = first_symbol[classpath'][1]
          /\ init_runs' = init_runs
          /\ eval_runs' = eval_runs]_vars

-----------------------------------------------------------------------------

(* Dictionaries and conversions                                            *)

EmptyDict == [k \in {} |-> TRUE]

Has(dict, key) == key \in DOMAIN dict

\* the dictionary holding key: value when present, and nothing otherwise
Opt(present, key, value) == IF present THEN key :> value ELSE EmptyDict

\* JSON values whose type the code tests
JDict(d) == <<"dict", d>>

JStr(str) == <<"str", str>>

\* numbers arrive as strings here, and int() and float() read them
IntStrings == ("0" :> 0) @@ ("1" :> 1) @@ ("2" :> 2) @@ ("300" :> 300)

OctalStrings == ("0000" :> 0) @@ ("0022" :> 18)

\* int(x)
IntOf(x) ==
    IF x \in DOMAIN IntStrings THEN Returned(IntStrings[x])
    ELSE Raised("ValueError", "invalid literal for int()")

\* int(x, 8)
OctalOf(x) ==
    IF x \in DOMAIN OctalStrings THEN Returned(OctalStrings[x])
    ELSE Raised("ValueError", "invalid literal for int() with base 8")

\* float(x)
FloatOf(x) ==
    IF x \in DOMAIN IntStrings \cup {"37.8", "-122.3"} THEN Returned(<<"float", x>>)
    ELSE Raised("ValueError", "could not convert string to float")

\* _class(**kwargs) of what loadClassPath returned: None is not callable
CallSymbol(symbol, kwargs) ==
    IF symbol = PyNone THEN Raised("TypeError", "'NoneType' object is not callable")
    ELSE Returned([kind |-> "Custom", kwargs |-> ("class" :> symbol[1]) @@ ("kwargs" :> kwargs)])

-----------------------------------------------------------------------------
(* The cache factory                                                       *)

CacheNames == {"Test", "Disk", "Multi", "Memcache", "S3"}

\* Caches.getCacheByName(name)
getCacheByName(name) ==
    IF name \in CacheNames THEN Returned(name)
    ELSE KnownUnknown("unknown-cache-backend")

\* Caches.<class>(**kwargs): the cache holds what it was constructed with
NewCache(class, kwargs) == Returned([kind |-> class, kwargs |-> kwargs])

\* add_kwargs(*keys): the named keys that cache_dict holds
add_kwargs(cache_dict, keys) == Restrict(cache_dict, keys \cap DOMAIN cache_dict)

RECURSIVE _parseConfigfileCache(_, _, _)

\* the list of tiers with its order reversed
RECURSIVE parseTiers_Reversed(_, _, _)
parseTiers_Reversed(tier_dicts, dirpath_, env) ==
    IF tier_dicts = << >> THEN Outcome(Returned(<< >>), env)
    ELSE LET first == _parseConfigfileCache(Head(tier_dicts), dirpath_, env)
             rest  == parseTiers_Reversed(Tail(tier_dicts), dirpath_, first.env)
         IN  IF ~first.result.ok THEN first
             ELSE IF ~rest.result.ok THEN rest
             ELSE Outcome(Returned(rest.result.value \o <<first.result.value>>), rest.env)

\* [_parseConfigfileCache(tier_dict, dirpath) for tier_dict in cache_dict['tiers']]
RECURSIVE parseTiers(_, _, _)
parseTiers(tier_dicts, dirpath_, env) ==
    IF tier_dicts = << >> THEN Outcome(Returned(<< >>), env)
    ELSE LET first == _parseConfigfileCache(Head(tier_dicts), dirpath_, env)
             rest  == parseTiers(Tail(tier_dicts), dirpath_, first.env)
         IN  IF ~first.result.ok THEN first
             ELSE IF ~rest.result.ok THEN rest
             ELSE Outcome(Returned(<<first.result.value>> \o rest.result.value), rest.env)

\* the branch of a Disk cache
DiskCache(cache_dict, dirpath_) ==
    LET umask == OctalOf(cache_dict["umask"])
        Made(path) ==
            IF ~path.ok THEN path
            ELSE IF Has(cache_dict, "umask") /\ ~umask.ok THEN umask
            ELSE NewCache("Disk",
                          ("path" :> path.value)
                          @@ Opt(Has(cache_dict, "umask"), "umask", umask.value)
                          @@ add_kwargs(cache_dict, {"dirs", "gzip"}))
    IN  IF ~Has(cache_dict, "path") THEN Raised("KeyError", "path")
        ELSE Made(enforcedLocalPath(cache_dict["path"], dirpath_))

\* _parseConfigfileCache(cache_dict, dirpath)
_parseConfigfileCache(cache_dict, dirpath_, env) ==
    IF Has(cache_dict, "name")
    THEN LET _class == getCacheByName(cache_dict["name"])
             Multi(tiers) ==
                 IF ~tiers.result.ok THEN tiers
                 ELSE Outcome(NewCache("Multi", "tiers" :> tiers.result.value), tiers.env)
         IN  IF ~_class.ok THEN Outcome(_class, env)
             ELSE IF _class.value = "Test"
             THEN Outcome(NewCache("Test",
                                   Opt(Has(cache_dict, "verbose") /\ cache_dict["verbose"],
                                       "logfunc", "stderr.write")), env)
             ELSE IF _class.value = "Disk"
             THEN Outcome(DiskCache(cache_dict, dirpath_), env)
             ELSE IF _class.value = "Multi"
             THEN IF ~Has(cache_dict, "tiers")
                  THEN Outcome(Raised("KeyError", "tiers"), env)
                  ELSE Multi(parseTiers(cache_dict["tiers"], dirpath_, env))
             ELSE IF _class.value = "Memcache"
             THEN Outcome(NewCache("Memcache",
                                   add_kwargs(cache_dict, {"servers", "lifespan", "revision"})),
                          env)
             ELSE IF _class.value = "S3"
             THEN Outcome(NewCache("S3", add_kwargs(cache_dict, {"bucket", "access", "secret"})),
                          env)
             ELSE Outcome(Raised("Exception", "Unknown cache"), env)
    ELSE IF Has(cache_dict, "class")
    THEN LET kwargs == IF Has(cache_dict, "kwargs") THEN cache_dict["kwargs"] ELSE EmptyDict
             Custom(loaded) ==
                 IF ~loaded.result.ok THEN loaded
                 ELSE Outcome(CallSymbol(loaded.result.value, kwargs), loaded.env)
         IN  Custom(loadClassPath(cache_dict["class"], env))
    ELSE Outcome(Raised("Exception", "Missing required cache name or class"), env)

-----------------------------------------------------------------------------

(* The layer factory                                                       *)

ProjectionNames == {"spherical mercator", "WGS84"}

\* Geography.getProjectionByName(name)
getProjectionByName(name) ==
    IF name \in ProjectionNames THEN Returned(name)
    ELSE KnownUnknown("unknown-projection")

ProviderNames == {"mapnik", "proxy", "url template", "vector", "mbtiles"}

\* Providers.getProviderByName(name)
getProviderByName(name) ==
    IF name \in ProviderNames THEN Returned(name)
    ELSE KnownUnknown("unknown-provider-backend")

\* the first failure among the outcomes, in order, or the last outcome
RECURSIVE FirstFailure(_)
FirstFailure(outcomes) ==
    IF Len(outcomes) = 1 \/ ~Head(outcomes).ok THEN Head(outcomes)
    ELSE FirstFailure(Tail(outcomes))

\* bool(x) and str(x) of a JSON boolean and a JSON string
BoolOf(x) == Returned(x)

StrOf(x) == Returned(x)

\* int(dict[key]), float(dict[key]), bool(dict[key]), str(dict[key]) when the
\* key is held, and nothing to convert otherwise
ConvertInt(dict, key) == IF Has(dict, key) THEN IntOf(dict[key]) ELSE Returned(PyNone)

ConvertFloat(dict, key) == IF Has(dict, key) THEN FloatOf(dict[key]) ELSE Returned(PyNone)

ConvertBool(dict, key) == IF Has(dict, key) THEN BoolOf(dict[key]) ELSE Returned(PyNone)

ConvertStr(dict, key) == IF Has(dict, key) THEN StrOf(dict[key]) ELSE Returned(PyNone)

\* bool(x) of a JSON string: the empty string is false
Truthy(str) == str # ""

\* the keyword arguments of a provider chosen by name
ProviderKwargs(_class, provider_dict) ==
    IF _class = "mapnik"
    THEN IF ~Has(provider_dict, "mapfile") THEN Raised("KeyError", "mapfile")
         ELSE Returned(("mapfile" :> Some(provider_dict["mapfile"]))
                       @@ ("fonts" :> Get(provider_dict, "fonts")))
    ELSE IF _class = "proxy"
    THEN Returned(Opt(Has(provider_dict, "url"), "url", Get(provider_dict, "url"))
                  @@ Opt(Has(provider_dict, "provider"), "provider_name",
                         Get(provider_dict, "provider")))
    ELSE IF _class = "url template"
    THEN IF ~Has(provider_dict, "template") THEN Raised("KeyError", "template")
         ELSE Returned("template" :> Some(provider_dict["template"]))
    ELSE IF _class = "vector"
    THEN IF ~Has(provider_dict, "driver") THEN Raised("KeyError", "driver")
         ELSE IF ~Has(provider_dict, "parameters") THEN Raised("KeyError", "parameters")
         ELSE IF ~ConvertFloat(provider_dict, "spacing").ok
         THEN ConvertFloat(provider_dict, "spacing")
         ELSE Returned(("driver" :> Some(provider_dict["driver"]))
                       @@ ("parameters" :> Some(provider_dict["parameters"]))
                       @@ ("properties" :> Get(provider_dict, "properties"))
                       @@ ("projected" :> Some(Has(provider_dict, "projected")
                                               /\ provider_dict["projected"]))
                       @@ ("verbose" :> Some(Has(provider_dict, "verbose")
                                             /\ provider_dict["verbose"]))
                       @@ ("spacing" :> IF Has(provider_dict, "spacing")
                                        THEN Some(FloatOf(provider_dict["spacing"]).value)
                                        ELSE PyNone)
                       @@ ("clipped" :> IF ~Has(provider_dict, "clipped") THEN Some(TRUE)
                                        ELSE IF provider_dict["clipped"] = "padded"
                                        THEN Some("padded")
                                        ELSE Some(Truthy(provider_dict["clipped"]))))
    ELSE IF _class = "mbtiles"
    THEN IF ~Has(provider_dict, "tileset") THEN Raised("KeyError", "tileset")
         ELSE Returned("tileset" :> Some(provider_dict["tileset"]))
    ELSE Returned(EmptyDict)

\* the provider's class and keyword arguments: by name, by class path, or not
\* at all
ProviderClass(provider_dict, env) ==
    IF Has(provider_dict, "name")
    THEN LET _class == getProviderByName(provider_dict["name"])
             Named(kwargs) ==
                 IF ~kwargs.ok THEN Outcome(kwargs, env)
                 ELSE Outcome(Returned([kind |-> _class.value, kwargs |-> kwargs.value]), env)
         IN  IF ~_class.ok THEN Outcome(_class, env)
             ELSE Named(ProviderKwargs(_class.value, provider_dict))
    ELSE IF Has(provider_dict, "class")
    THEN LET kwargs == IF Has(provider_dict, "kwargs") THEN provider_dict["kwargs"]
                       ELSE EmptyDict
             Custom(loaded) ==
                 IF ~loaded.result.ok THEN loaded
                 ELSE Outcome(CallSymbol(loaded.result.value, kwargs), loaded.env)
         IN  Custom(loadClassPath(provider_dict["class"], env))
    ELSE Outcome(Raised("Exception", "Missing required provider name or class"), env)

\* _parseConfigfileLayer(layer_dict, config, dirpath)
_parseConfigfileLayer(layer_dict, config_, dirpath_, env) ==
    LET projection == getProjectionByName(IF Has(layer_dict, "projection")
                                          THEN layer_dict["projection"]
                                          ELSE "spherical mercator")
        lifespan == ConvertInt(layer_dict, "cache lifespan")
        timeout  == ConvertInt(layer_dict, "stale lock timeout")
        write    == ConvertBool(layer_dict, "write cache")
        origin   == ConvertStr(layer_dict, "allowed origin")
        preview_dict == IF Has(layer_dict, "preview") THEN layer_dict["preview"] ELSE EmptyDict
        lat  == ConvertFloat(preview_dict, "lat")
        lon  == ConvertFloat(preview_dict, "lon")
        zoom == ConvertInt(preview_dict, "zoom")
        ext  == ConvertStr(preview_dict, "ext")
        bounds_ == IF ~Has(layer_dict, "bounds") THEN Returned(PyNone)
                   ELSE IF layer_dict["bounds"][1] # "dict"
                   THEN KnownUnknown("bounds-not-a-dictionary")
                   ELSE _parseLayerBounds(layer_dict["bounds"][2])
        meta_dict == IF Has(layer_dict, "metatile") THEN layer_dict["metatile"] ELSE EmptyDict
        buffer   == ConvertInt(meta_dict, "buffer")
        rows     == ConvertInt(meta_dict, "rows")
        columns  == ConvertInt(meta_dict, "columns")
        layer_kwargs ==
            Opt(Has(layer_dict, "cache lifespan"), "cache_lifespan", lifespan.value)
            @@ Opt(Has(layer_dict, "stale lock timeout"), "stale_lock_timeout", timeout.value)
            @@ Opt(Has(layer_dict, "write cache"), "write_cache", write.value)
            @@ Opt(Has(layer_dict, "allowed origin"), "allowed_origin", origin.value)
            @@ Opt(Has(preview_dict, "lat"), "preview_lat", lat.value)
            @@ Opt(Has(preview_dict, "lon"), "preview_lon", lon.value)
            @@ Opt(Has(preview_dict, "zoom"), "preview_zoom", zoom.value)
            @@ Opt(Has(preview_dict, "ext"), "preview_ext", ext.value)
            @@ Opt(Has(layer_dict, "bounds"), "bounds", bounds_.value)
        metatile ==
            Opt(Has(meta_dict, "buffer"), "buffer", buffer.value)
            @@ Opt(Has(meta_dict, "rows"), "rows", rows.value)
            @@ Opt(Has(meta_dict, "columns"), "columns", columns.value)
        \* the layer, given the first failure before the provider, if any, and
        \* what became of the provider
        Layer(before, provider) ==
            IF ~before.ok THEN Outcome(before, env)
            ELSE IF ~provider.result.ok THEN provider
            ELSE Outcome(Returned([projection |-> projection.value,
                                   metatile |-> metatile,
                                   kwargs |-> layer_kwargs,
                                   provider |-> provider.result.value,
                                   jpeg |-> IF Has(layer_dict, "jpeg options")
                                            THEN layer_dict["jpeg options"] ELSE EmptyDict,
                                   png |-> IF Has(layer_dict, "png options")
                                           THEN layer_dict["png options"] ELSE EmptyDict]),
                         provider.env)
    IN  Layer(FirstFailure(<<projection, lifespan, timeout, write, origin,
                             lat, lon, zoom, ext, bounds_, buffer, rows, columns>>),
              IF ~Has(layer_dict, "provider")
              THEN Outcome(Raised("KeyError", "provider"), env)
              ELSE ProviderClass(layer_dict["provider"], env))

-----------------------------------------------------------------------------

(* buildConfiguration                                                      *)

\* Configuration.__init__(cache, dirpath)
Configuration(cache, dirpath_) == [cache |-> cache, dirpath |-> dirpath_, layers |-> EmptyDict]

NoConfig == [cache |-> PyNone, dirpath |-> Empty, layers |-> EmptyDict]

\* config_dict.get('layers', {})
LayersOf(config_dict_) ==
    IF Has(config_dict_, "layers") THEN config_dict_["layers"] ELSE EmptyDict

\* config_dict.get('cache', {})
CacheOf(config_dict_) ==
    IF Has(config_dict_, "cache") THEN config_dict_["cache"] ELSE EmptyDict

CurrentEnv == Env(sys_modules, init_runs, eval_runs)

SetEnv(env) ==
    /\ sys_modules' = env.sys_modules
    /\ init_runs' = env.init_runs
    /\ eval_runs' = env.eval_runs
    /\ UNCHANGED <<classpath, load_result, first_symbol, load_calls>>

\* lines 164 to 167: the cache is built and the Configuration made
BuildCache ==
    /\ build_pc = "start"
    /\ \E out \in {_parseConfigfileCache(CacheOf(config_dict), config_dirpath, CurrentEnv)} :
          /\ SetEnv(out.env)
          /\ IF out.result.ok
             THEN /\ config' = Configuration(Some(out.result.value), config_dirpath)
                  /\ todo' = DOMAIN LayersOf(config_dict)
                  /\ build_pc' = "layers"
                  /\ UNCHANGED returned
             ELSE /\ returned' = out.result
                  /\ build_pc' = "raised"
                  /\ UNCHANGED <<config, todo>>
    /\ UNCHANGED <<config_dict, config_dirpath>>
    /\ UNCHANGED <<path_vars, bounds_vars>>

\* the loop over the layers with a layer that fails to build left out
BuildLayer_SkipFailed ==
    /\ build_pc = "layers"
    /\ \E name \in todo :
          \E out \in {_parseConfigfileLayer(LayersOf(config_dict)[name], config,
                                            config_dirpath, CurrentEnv)} :
              /\ SetEnv(out.env)
              /\ todo' = todo \ {name}
              /\ config' = IF out.result.ok
                           THEN [config EXCEPT !.layers = (name :> out.result.value) @@ @]
                           ELSE config
              /\ UNCHANGED <<build_pc, returned>>
    /\ UNCHANGED <<config_dict, config_dirpath>>
    /\ UNCHANGED <<path_vars, bounds_vars>>

\* lines 169 and 170: one turn of the loop over the layers, in the
\* dictionary's order, which is any order
BuildLayer ==
    /\ build_pc = "layers"
    /\ \E name \in todo :
          \E out \in {_parseConfigfileLayer(LayersOf(config_dict)[name], config,
                                            config_dirpath, CurrentEnv)} :
              /\ SetEnv(out.env)
              /\ IF out.result.ok
                 THEN /\ config' = [config EXCEPT !.layers = (name :> out.result.value) @@ @]
                      /\ todo' = todo \ {name}
                      /\ UNCHANGED <<build_pc, returned>>
                 ELSE /\ returned' = out.result
                      /\ build_pc' = "raised"
                      /\ UNCHANGED <<config, todo>>
    /\ UNCHANGED <<config_dict, config_dirpath>>
    /\ UNCHANGED <<path_vars, bounds_vars>>

\* line 172: return config
BuildReturn ==
    /\ build_pc = "layers"
    /\ todo = {}
    /\ returned' = Returned(config)
    /\ build_pc' = "done"
    /\ UNCHANGED <<config_dict, config_dirpath, config, todo, load_vars>>
    /\ UNCHANGED <<path_vars, bounds_vars>>

-----------------------------------------------------------------------------
(* Inputs of buildConfiguration                                            *)

MaxTiers == 2

DiskPaths == {<<"/", "tmp", "/", "a">>, <<"b">>, <<"file", ":", "/", "/", "/", "c">>}

TestDict == [name |-> "Test"]

DiskDict(path) == [name |-> "Disk", path |-> path]

MultiDict(tiers) == [name |-> "Multi", tiers |-> tiers]

ClassDict(cp) == [class |-> cp]

TierDicts ==
    {TestDict, EmptyDict, MultiDict(<<TestDict>>), ClassDict(GoodMod \o <<":", "make", "(", ")">>)}
    \cup {DiskDict(p) : p \in DiskPaths}

TierLists == UNION {[1..n -> TierDicts] : n \in 0..MaxTiers}

CacheDicts ==
    TierDicts
    \cup {MultiDict(t) : t \in TierLists}
    \cup {[name |-> "Test", verbose |-> TRUE],
          [name |-> "Disk"],
          [name |-> "Disk", path |-> <<"b">>, umask |-> "0022", gzip |-> "txt"],
          [name |-> "Disk", path |-> <<"b">>, umask |-> "9"],
          [name |-> "Memcache", servers |-> "127.0.0.1:11211"],
          [name |-> "S3", bucket |-> "tiles"],
          [name |-> "Bogus"],
          [name |-> "Multi"],
          ClassDict(GoodMod \o <<":", "Widget">>),
          ClassDict(GoodMod \o <<".", "Nothing">>),
          ClassDict(NoMod \o <<":", "Widget">>)}

MapnikDict == [name |-> "mapnik", mapfile |-> "style.xml"]

LayerDicts ==
    {[provider |-> MapnikDict],
     [provider |-> EmptyDict],
     [provider |-> ClassDict(GoodMod \o <<":", "Widget">>)],
     [provider |-> ClassDict(GoodMod \o <<".", "Nothing">>)],
     ("provider" :> MapnikDict) @@ ("bounds" :> JStr("world")),
     ("provider" :> MapnikDict)
        @@ ("bounds" :> JDict([north |-> 85, west |-> -180, high |-> 2])),
     ("provider" :> [name |-> "vector", driver |-> "shp", parameters |-> "a.shp",
                     clipped |-> "padded", spacing |-> "2"])
        @@ ("bounds" :> JDict([north |-> 85, west |-> -180, south |-> 0, east |-> 0,
                               high |-> 1, low |-> 2]))
        @@ ("cache lifespan" :> "300") @@ ("write cache" :> FALSE)
        @@ ("metatile" :> [rows |-> "2", columns |-> "2"])
        @@ ("preview" :> [lat |-> "37.8", lon |-> "-122.3", zoom |-> "2", ext |-> "png"])
        @@ ("projection" :> "WGS84"),
     ("provider" :> MapnikDict) @@ ("cache lifespan" :> "soon")}

LayerNames == {"osm", "roads"}

LayerMaps == UNION {[names -> LayerDicts] : names \in SUBSET LayerNames}

ConfigDicts ==
    {("cache" :> c) @@ ("layers" :> m) : c \in CacheDicts, m \in LayerMaps}
    \cup {"layers" :> m : m \in LayerMaps}
    \cup {"cache" :> c : c \in CacheDicts}

ConfigDirpaths == {<<"/", "cfg">>, <<"http", ":", "/", "/", "h", "/", "cfg">>}

BuildInit ==
    /\ config_dict \in ConfigDicts
    /\ config_dirpath \in ConfigDirpaths
    /\ build_pc = "start"
    /\ config = NoConfig
    /\ todo = {}
    /\ returned = NoResult

BuildIdle ==
    /\ config_dict = EmptyDict /\ config_dirpath = Empty /\ build_pc = "idle"
    /\ config = NoConfig /\ todo = {} /\ returned = NoResult

-----------------------------------------------------------------------------
(* C3: a build returns a whole Configuration or none                       *)

Env0 == Env({}, 0, 0)

\* C3: a Configuration is returned only at the end of the build, it holds
\* exactly the layers of the "layers" mapping, every one of which built, and a
\* build that raised returned nothing
C3_AllOrNothing ==
    /\ returned.ok =>
          /\ build_pc = "done"
          /\ DOMAIN returned.value.layers = DOMAIN LayersOf(config_dict)
          /\ _parseConfigfileCache(CacheOf(config_dict), config_dirpath, Env0).result.ok
          /\ \A n \in DOMAIN LayersOf(config_dict) :
                _parseConfigfileLayer(LayersOf(config_dict)[n], NoConfig,
                                      config_dirpath, Env0).result.ok
    /\ build_pc = "done" => returned.ok
    /\ build_pc = "raised" => ~returned.ok /\ returned.error # None

\* a build that raised at one layer after it had built another
C3_Witness ==
    /\ build_pc = "raised"
    /\ DOMAIN config.layers # {}
    /\ ~returned.ok

-----------------------------------------------------------------------------
(* C4: the class of the error a malformed configuration ends in            *)

SchemaShapeFailures ==
    {"Missing required cache name or class", "Missing required provider name or class",
     "unknown-cache-backend", "bounds-not-a-dictionary", "incomplete-bounds-spec"}

\* C4 as stated: a missing cache or provider selector, an unknown cache name,
\* bounds that are no dictionary and bounds that miss a key all end the build
\* in a KnownUnknown
C4_ErrorKind ==
    /\ (build_pc = "raised" /\ returned.why \in SchemaShapeFailures)
          => returned.error = "KnownUnknown"
    /\ (build_pc # "start" /\ ~Has(CacheOf(config_dict), "name")
                           /\ ~Has(CacheOf(config_dict), "class"))
          => (build_pc = "raised" /\ returned.error = "KnownUnknown")

-----------------------------------------------------------------------------
(* C8: the tiers of a Multi cache                                          *)

\* every Multi cache in the tree of caches has at least one tier
RECURSIVE TiersNonEmpty(_)
TiersNonEmpty(cache) ==
    cache.kind = "Multi" =>
        /\ Len(cache.kwargs["tiers"]) > 0
        /\ \A i \in 1..Len(cache.kwargs["tiers"]) : TiersNonEmpty(cache.kwargs["tiers"][i])

\* C8 as stated: no Configuration is returned whose cache is, or holds, a Multi
\* cache without tiers
C8_NonEmptyTiers == returned.ok => TiersNonEmpty(returned.value.cache[1])

-----------------------------------------------------------------------------
(* C9: the order of the tiers                                              *)

\* the environment in which the i-th tier is built: after the tiers before it
TierEnv(tier_dicts, dirpath_, i) == parseTiers(SubSeq(tier_dicts, 1, i - 1), dirpath_, Env0).env

\* C9: the Multi cache built from a list of tiers holds as many tiers, the i-th
\* being the cache that the factory builds from the i-th dictionary with the
\* same directory; a Disk tier is a Disk cache at its own resolved path
C9_TierOrder ==
    (build_pc \in {"layers", "done"} /\ Has(CacheOf(config_dict), "name")
        /\ CacheOf(config_dict)["name"] = "Multi") =>
        LET spec  == CacheOf(config_dict)["tiers"]
            built == config.cache[1].kwargs["tiers"]
        IN  /\ config.cache[1].kind = "Multi"
            /\ Len(built) = Len(spec)
            /\ \A i \in 1..Len(spec) :
                  /\ built[i] = _parseConfigfileCache(spec[i], config_dirpath,
                                    TierEnv(spec, config_dirpath, i)).result.value
                  /\ (Has(spec[i], "name") /\ spec[i]["name"] = "Disk") =>
                        /\ built[i].kind = "Disk"
                        /\ built[i].kwargs["path"] =
                              enforcedLocalPath(spec[i]["path"], config_dirpath).value

\* a Multi cache built from two Disk tiers with different paths
C9_Witness ==
    /\ build_pc = "done"
    /\ Has(CacheOf(config_dict), "name") /\ CacheOf(config_dict)["name"] = "Multi"
    /\ Len(config.cache[1].kwargs["tiers"]) = 2
    /\ \A i \in 1..2 : config.cache[1].kwargs["tiers"][i].kind = "Disk"
    /\ config.cache[1].kwargs["tiers"][1] # config.cache[1].kwargs["tiers"][2]

-----------------------------------------------------------------------------
(* Specifications                                                          *)

PathSpecInit == PathInit /\ BoundsIdle /\ LoadInit /\ BuildIdle

PathNext == Resolve

\* calls of enforcedLocalPath
SpecPath == PathSpecInit /\ [][PathNext]_vars

BoundsSpecInit == PathIdle /\ BoundsInit /\ LoadInit /\ BuildIdle

BoundsNext == ParseLayerBounds \/ NewBounds \/ Excludes

\* Bounds built from a dictionary or directly, and calls of excludes()
SpecBounds == BoundsSpecInit /\ [][BoundsNext]_vars

LoadSpecInit == PathIdle /\ BoundsIdle /\ LoadInit /\ BuildIdle

LoadNext == Load

\* calls of loadClassPath in one process
SpecLoad == LoadSpecInit /\ [][LoadNext]_vars

BuildSpecInit == PathIdle /\ BoundsIdle /\ LoadInit /\ BuildInit

BuildNext == BuildCache \/ BuildLayer \/ BuildReturn

\* one call of buildConfiguration
SpecBuild == BuildSpecInit /\ [][BuildNext]_vars

Init == PathInit /\ BoundsInit /\ LoadInit /\ BuildInit

Next == PathNext \/ BoundsNext \/ LoadNext \/ BuildNext

\* the four components together; they share no state but the Python
\* environment, and each is checked under its own specification above
Spec == Init /\ [][Next]_vars

====
